---- MODULE Spec2Model ----
(***************************************************************************)
(* Jurassic Parking (src/index.js): service fees, job-load assignment,     *)
(* employee commission and receipt formatting.                             *)
(*                                                                         *)
(* Decimal quantities are held as integers in a fixed unit:                *)
(*   fuel.level                 thousandths            (0.1    -> 100)     *)
(*   fuel.capacity, rate        whole units            (10     -> 10)      *)
(*   fuelPricePerUnit           hundredths             (1.75   -> 175)     *)
(*   fuelAdded (unitsToFuel)    thousandths            (9      -> 9000)    *)
(*   netTotal, totalToPay       10^-DECIMAL_PLACES     (50.75  -> 5075000) *)
(*   commissionPct              whole percents         (15     -> 15)      *)
(* BigNumber plus, minus and multipliedBy are exact, so they are integer   *)
(* arithmetic on these units; dividedBy rounds to DECIMAL_PLACES places    *)
(* with ROUNDING_MODE (src/index.js line 5).                               *)
(***************************************************************************)
EXTENDS Integers, Sequences, FiniteSets, TLC

VARIABLES
    employees,   \* the employee array an operation is given (for jurassicParking: the pool of ./params)
    queue,       \* the array an operation is given: vehicles, priced jobs or assigned jobs
    employees0,  \* the employee array as it was when first handed over (history)
    queue0,      \* the queue as it was when handed over (history)
    jobLoads,    \* assignJobLoads' jobLoads once it has run: the employees with their numJobs
    result,      \* outcome of the last operation: [status, value, error]
    runs         \* completed calls of the operation

vars == <<employees, queue, employees0, queue0, jobLoads, result, runs>>

---------------------------------------------------------------------------
(* Bounds of the model *)

MaxEmployees == 3
MaxJobs == 5
MaxVehicles == 2
MaxPayJobs == 2
MaxBatchVehicles == 2
MaxRuns == 3

---------------------------------------------------------------------------
(* Generic helpers: JavaScript arrays and objects *)

Min(a, b) == IF a < b THEN a ELSE b

Max(a, b) == IF a > b THEN a ELSE b

\* {...a, ...b}: the keys of both, b's value winning on a shared key
Spread(a, b) == [k \in (DOMAIN a) \cup (DOMAIN b) |-> IF k \in DOMAIN b THEN b[k] ELSE a[k]]

\* Array.prototype.splice(0, n): the elements removed and the array left behind
Splice0(s, n) ==
    LET k == Max(0, Min(n, Len(s)))
    IN  [removed |-> SubSeq(s, 1, k), left |-> SubSeq(s, k + 1, Len(s))]

Returned(v) == [status |-> "returned", value |-> v, error |-> ""]

Threw(e) == [status |-> "threw", value |-> <<>>, error |-> e]

NoResult == [status |-> "none", value |-> <<>>, error |-> ""]

\* licence plates and employee names, by position in the input
Plates == <<"A", "B", "C", "D", "E", "F", "G">>

Names == <<"Ian Malcolm", "Alan Grant", "Ellie Sattler", "John Hammond", "Ray Arnold">>

\* all sequences over S of length 0..n
SeqsUpTo(S, n) == UNION {[1..k -> S] : k \in 0..n}

---------------------------------------------------------------------------
(* assignJobLoads, src/index.js lines 78-131 *)

\* the comparator with its operands swapped: an ascending sort
compareEmployeesAscending(a, b) == a.commissionPct - b.commissionPct

\* comparator of the employee sort: b.commissionPct - a.commissionPct
compareEmployees(a, b) == b.commissionPct - a.commissionPct

\* comparator of the job sort: b.netTotal.minus(a.netTotal), coerced to a number by sort
compareJobs(a, b) == b.netTotal - a.netTotal

\* Array.prototype.sort is stable: x goes behind every element that does not
\* compare after it
RECURSIVE InsertEmployee(_, _)
InsertEmployee(x, s) ==
    IF s = <<>> THEN <<x>>
    ELSE IF compareEmployees(Head(s), x) <= 0
         THEN <<Head(s)>> \o InsertEmployee(x, Tail(s))
         ELSE <<x>> \o s

RECURSIVE sortEmployeesStable(_)
sortEmployeesStable(s) ==
    IF s = <<>> THEN <<>>
    ELSE InsertEmployee(s[Len(s)], sortEmployeesStable(SubSeq(s, 1, Len(s) - 1)))

\* a sort that is not stable: x goes in front of the elements it ties with
RECURSIVE InsertEmployeeBeforeTies(_, _)
InsertEmployeeBeforeTies(x, s) ==
    IF s = <<>> THEN <<x>>
    ELSE IF compareEmployees(Head(s), x) < 0
         THEN <<Head(s)>> \o InsertEmployeeBeforeTies(x, Tail(s))
         ELSE <<x>> \o s

RECURSIVE sortEmployeesUnstable(_)
sortEmployeesUnstable(s) ==
    IF s = <<>> THEN <<>>
    ELSE InsertEmployeeBeforeTies(s[Len(s)], sortEmployeesUnstable(SubSeq(s, 1, Len(s) - 1)))

\* employees.sort((a, b) => b.commissionPct - a.commissionPct)
sortEmployees(s) == sortEmployeesStable(s)

RECURSIVE InsertJob(_, _)
InsertJob(x, s) ==
    IF s = <<>> THEN <<x>>
    ELSE IF compareJobs(Head(s), x) <= 0
         THEN <<Head(s)>> \o InsertJob(x, Tail(s))
         ELSE <<x>> \o s

RECURSIVE sortQueueStable(_)
sortQueueStable(s) ==
    IF s = <<>> THEN <<>>
    ELSE InsertJob(s[Len(s)], sortQueueStable(SubSeq(s, 1, Len(s) - 1)))

\* queue.sort((a, b) => b.netTotal.minus(a.netTotal))
sortQueue(s) == sortQueueStable(s)

\* chunkSize = jobsPerEmployee > 1 ? Math.floor(jobsPerEmployee) : 1, for
\* totalEmployees >= 1, where jobsPerEmployee = totalJobs / totalEmployees
chunkSize(totalJobs, totalEmployees) ==
    IF totalJobs > totalEmployees THEN totalJobs \div totalEmployees ELSE 1

\* isEvenQueue = !totalJobs % totalEmployees === 0, which JavaScript reads as
\* ((!totalJobs) % totalEmployees) === 0: !totalJobs is true (1) only for no
\* jobs, and x % 0 is NaN, which equals nothing
isEvenQueue(totalJobs, totalEmployees) ==
    IF totalEmployees = 0 THEN FALSE
    ELSE ((IF totalJobs = 0 THEN 1 ELSE 0) % totalEmployees) = 0

\* lines 97-111: every employee gets chunkSize; the leftover goes to the first
\* one when the queue is not even.  With no employee the map is empty, and
\* leftoverJobs (totalJobs - Infinity * 0, or 0 - 1 * 0) is never > 0, so
\* jobLoads[0] is not touched.
computeJobLoads(sortedEmployees, totalJobs) ==
    LET totalEmployees == Len(sortedEmployees)
        chunk == chunkSize(totalJobs, totalEmployees)
        loads == [i \in 1..totalEmployees |->
                    Spread(sortedEmployees[i], [numJobs |-> chunk])]
        leftoverJobs == totalJobs - chunk * totalEmployees
    IN  IF totalEmployees = 0 THEN <<>>
        ELSE IF ~isEvenQueue(totalJobs, totalEmployees) /\ leftoverJobs > 0
             THEN [loads EXCEPT ![1] =
                     Spread(loads[1], [numJobs |-> loads[1].numJobs + leftoverJobs])]
             ELSE loads

\* lines 114-125: walk jobLoads from employee i on, splicing numJobs jobs off
\* the front of the sorted queue and pushing {...emp, ...job}; stop when the
\* queue is empty
RECURSIVE consumeQueue(_, _, _, _)
consumeQueue(loads, i, sortedQueue, jobs) ==
    IF i > Len(loads) THEN [queue |-> sortedQueue, jobs |-> jobs]
    ELSE LET sp == Splice0(sortedQueue, loads[i].numJobs)
             pushed == jobs \o [j \in 1..Len(sp.removed) |-> Spread(loads[i], sp.removed[j])]
         IN  IF Len(sp.left) = 0
             THEN [queue |-> sp.left, jobs |-> pushed]
             ELSE consumeQueue(loads, i + 1, sp.left, pushed)

\* the function without its sanity check: whatever was pushed is returned
sanityCheckOmitted(left, jobs) == Returned(jobs)

\* lines 126-130: the sanity check on what is left of the queue
sanityCheck(left, jobs) ==
    IF Len(left) > 0 THEN Threw("UNASSIGNED JOBS STILL IN QUEUE!!!!") ELSE Returned(jobs)

\* the whole function: the caller's two arrays afterwards (both sorts and the
\* splices act on the arrays passed in), the loads, and the outcome
assignJobLoads(emps, q) ==
    LET sortedEmployees == sortEmployees(emps)
        sortedQueue == sortQueue(q)
        loads == computeJobLoads(sortedEmployees, Len(sortedQueue))
        c == consumeQueue(loads, 1, sortedQueue, <<>>)
    IN  [employees |-> sortedEmployees,
         queue |-> c.queue,
         jobLoads |-> loads,
         result |-> sanityCheck(c.queue, c.jobs)]

---------------------------------------------------------------------------
(* Parameters: BigNumber.config (src/index.js line 5) and ./params *)

DECIMAL_PLACES == 5

\* units per 1 of netTotal and totalToPay
MoneyScale == 10^DECIMAL_PLACES

\* units per 1 of fuel.level and fuelAdded
LevelScale == 10^3

\* units per 1 of fuelPricePerUnit
PriceScale == 10^2

\* $1.75 per litre, in hundredths
fuelPricePerUnit == 175

\* small cars pay a flat 25, large vehicles 35
parkingRates == <<[size |-> "small", rate |-> 25], [size |-> "large", rate |-> 35]>>

---------------------------------------------------------------------------
(* calculateServiceFees and calculateUnitsToFuel, src/index.js lines 32-70 *)

\* the refuel test with the upper end left out
needsRefuelBelowTen(fuelPct) == fuelPct < 10 * LevelScale /\ fuelPct >= 0

\* fuelPct.isLessThanOrEqualTo(10) && fuelPct.isGreaterThanOrEqualTo(0),
\* fuelPct in thousandths of a percent
needsRefuel(fuelPct) == fuelPct <= 10 * LevelScale /\ fuelPct >= 0

\* lines 54-70; unitsToFuel in thousandths, totalFuelPrice in money units
calculateUnitsToFuel(car) ==
    LET capacity == car.fuel.capacity
        level == car.fuel.level
        fuelPct == level * 100
        unitsToFuel == capacity * LevelScale - capacity * level
        totalFuelPrice ==
            unitsToFuel * fuelPricePerUnit * (MoneyScale \div (LevelScale * PriceScale))
    IN  IF needsRefuel(fuelPct)
        THEN [unitsToFuel |-> unitsToFuel, totalFuelPrice |-> totalFuelPrice]
        ELSE [unitsToFuel |-> 0, totalFuelPrice |-> 0]

\* parkingRates.filter((x) => x.size === car.size)
matchingRates(car) == SelectSeq(parkingRates, LAMBDA x : x.size = car.size)

\* lines 33-46, for a car whose size has a rate
priceCar(car) ==
    LET parkingRate == matchingRates(car)[1].rate * MoneyScale
        fuelData == calculateUnitsToFuel(car)
        totalToPay == fuelData.totalFuelPrice + parkingRate
    IN  Spread(car, [fuelAdded |-> fuelData.unitsToFuel, netTotal |-> totalToPay])

\* lines 32-47: queue.map builds a new array; [0].rate of an empty filter
\* result throws a TypeError out of the whole call
calculateServiceFees(q) ==
    IF \E i \in 1..Len(q) : Len(matchingRates(q[i])) = 0
    THEN Threw("TypeError")
    ELSE Returned([i \in 1..Len(q) |-> priceCar(q[i])])

---------------------------------------------------------------------------
(* addEmployeeCommission, src/index.js lines 138-155 *)

Abs(x) == IF x < 0 THEN 0 - x ELSE x

\* division under ROUND_HALF_DOWN: a tie goes towards zero
dividedByHalfDown(x, d) ==
    LET q == Abs(x) \div d
        r == Abs(x) % d
        mag == IF 2 * r > d THEN q + 1 ELSE q
    IN  IF x < 0 THEN 0 - mag ELSE mag

\* BigNumber dividedBy by a whole number d > 0: the quotient rounded to
\* DECIMAL_PLACES places, ROUND_HALF_UP (nearest, a tie away from zero);
\* x and the result in money units
dividedBy(x, d) ==
    LET q == Abs(x) \div d
        r == Abs(x) % d
        mag == IF 2 * r >= d THEN q + 1 ELSE q
    IN  IF x < 0 THEN 0 - mag ELSE mag

\* lines 140-153 for one job
payJob(job) ==
    LET jobNetTotal == job.netTotal
        empCommission == job.commissionPct
        commissionToPay ==
            IF empCommission < 0 THEN 0
            ELSE dividedBy(jobNetTotal * empCommission, 100)
        totalToPay == jobNetTotal + commissionToPay
    IN  Spread(job, [totalToPay |-> totalToPay])

addEmployeeCommission(loads) == Returned([i \in 1..Len(loads) |-> payJob(loads[i])])

---------------------------------------------------------------------------
(* makeMePretty and jurassicParking, src/index.js lines 19-25 and 160-170 *)

\* toBN(x).toNumber() keeps the value of a decimal of this size, so the
\* number is held in the unit of the BigNumber it came from
prettyJob(job) ==
    [licencePlate |-> job.licencePlate,
     employee |-> job.name,
     fuelAdded |-> job.fuelAdded,
     price |-> job.totalToPay]

makeMePretty(loads) == Returned([i \in 1..Len(loads) |-> prettyJob(loads[i])])

\* the four stages in turn on the module's employee pool; a stage that throws
\* ends the run.  employees is the pool afterwards: assignJobLoads sorts it
\* in place before anything can throw there.
jurassicParking(pool, q) ==
    LET servicedQueue == calculateServiceFees(q)
    IN  IF servicedQueue.status = "threw"
        THEN [employees |-> pool, jobLoads |-> <<>>, result |-> servicedQueue]
        ELSE LET a == assignJobLoads(pool, servicedQueue.value)
             IN  IF a.result.status = "threw"
                 THEN [employees |-> a.employees, jobLoads |-> a.jobLoads, result |-> a.result]
                 ELSE [employees |-> a.employees,
                       jobLoads |-> a.jobLoads,
                       result |-> makeMePretty(addEmployeeCommission(a.result.value).value)]

---------------------------------------------------------------------------
(* Specification of assignJobLoads called on its own *)

CommissionPcts == {11, 15}

\* netTotal of the priced jobs: 3.5, 35, 50.75
JobNetTotals == {350000, 3500000, 5075000}

EmployeePools ==
    {[i \in 1..Len(p) |-> [name |-> Names[i], commissionPct |-> p[i]]] :
        p \in SeqsUpTo(CommissionPcts, MaxEmployees)}

PricedQueues ==
    {[i \in 1..Len(n) |-> [licencePlate |-> Plates[i], fuelAdded |-> 0, netTotal |-> n[i]]] :
        n \in SeqsUpTo(JobNetTotals, MaxJobs)}

InitAssign ==
    /\ employees \in EmployeePools
    /\ queue \in PricedQueues
    /\ employees0 = employees
    /\ queue0 = queue
    /\ jobLoads = <<>>
    /\ result = NoResult
    /\ runs = 0

AssignJobLoads ==
    /\ runs = 0
    /\ LET r == assignJobLoads(employees, queue)
       IN  /\ employees' = r.employees
           /\ queue' = r.queue
           /\ jobLoads' = r.jobLoads
           /\ result' = r.result
    /\ runs' = 1
    /\ UNCHANGED <<employees0, queue0>>

NextAssign == AssignJobLoads

SpecAssign == InitAssign /\ [][NextAssign]_vars

---------------------------------------------------------------------------
(* Properties of assignJobLoads, under SpecAssign *)

AssignDone == runs = 1

RECURSIVE SumNumJobs(_)
SumNumJobs(loads) ==
    IF loads = <<>> THEN 0 ELSE loads[1].numJobs + SumNumJobs(Tail(loads))

\* the output records that carry employee e's name
JobsOf(jobs, e) == {j \in 1..Len(jobs) : jobs[j].name = e.name}

IsDescending(s) == \A i \in 1..Len(s) : \A j \in 1..Len(s) : i < j => s[i] >= s[j]

\* C1: with at least one employee, assignJobLoads returns normally and leaves
\* its working queue empty; the UNASSIGNED JOBS error is never raised.
C1_NeverUnassigned ==
    (AssignDone /\ Len(employees0) >= 1) =>
        (result.status = "returned" /\ queue = <<>>)

\* C2: for totalJobs >= totalEmployees >= 1 every employee gets
\* floor(totalJobs / totalEmployees) jobs and the first employee in
\* descending-commission order gets the leftover jobs on top.
C2_ChunkPlusLeftover ==
    (AssignDone /\ Len(employees0) >= 1 /\ Len(queue0) >= Len(employees0)) =>
        LET n == Len(employees0)
            chunk == Len(queue0) \div n
            leftover == Len(queue0) - chunk * n
            share(i) == IF i = 1 THEN chunk + leftover ELSE chunk
        IN  /\ Len(jobLoads) = n
            /\ \A i \in 1..n : jobLoads[i].numJobs = share(i)
            /\ result.status = "returned"
            /\ \A i \in 1..n : Cardinality(JobsOf(result.value, jobLoads[i])) = share(i)

\* C3: whenever assignJobLoads returns, its output holds every job of the
\* input queue exactly once, each merged with one employee of the pool.
C3_NoJobDroppedOrDuplicated ==
    (AssignDone /\ result.status = "returned") =>
        /\ Len(result.value) = Len(queue0)
        /\ \A i \in 1..Len(queue0) :
              Cardinality({j \in 1..Len(result.value) :
                  /\ result.value[j].licencePlate = queue0[i].licencePlate
                  /\ result.value[j].netTotal = queue0[i].netTotal
                  /\ result.value[j].fuelAdded = queue0[i].fuelAdded}) = 1
        /\ \A j \in 1..Len(result.value) :
              Cardinality({e \in 1..Len(employees0) :
                  /\ result.value[j].name = employees0[e].name
                  /\ result.value[j].commissionPct = employees0[e].commissionPct}) = 1

\* a return with several jobs, out of order on entry, shared by two employees
C3_Witness ==
    /\ AssignDone
    /\ result.status = "returned"
    /\ Len(queue0) >= 4
    /\ ~IsDescending([i \in 1..Len(queue0) |-> queue0[i].netTotal])
    /\ \E i, j \in 1..Len(result.value) : result.value[i].name # result.value[j].name

\* C4: for a nonempty queue and a nonempty pool, the numJobs counts summed
\* over every employee equal the number of jobs in the queue.
C4_NumJobsSumToTotal ==
    (AssignDone /\ Len(employees0) >= 1 /\ Len(queue0) >= 1) =>
        SumNumJobs(jobLoads) = Len(queue0)

\* C5: the output is ordered by netTotal descending and, along the same
\* order, by commissionPct non-increasing.
C5_OutputOrdered ==
    (AssignDone /\ result.status = "returned") =>
        /\ IsDescending([i \in 1..Len(result.value) |-> result.value[i].netTotal])
        /\ IsDescending([i \in 1..Len(result.value) |-> result.value[i].commissionPct])

\* a return where neither input was in order and the output spans two
\* commission rates and two netTotals
C5_Witness ==
    /\ AssignDone
    /\ result.status = "returned"
    /\ ~IsDescending([i \in 1..Len(queue0) |-> queue0[i].netTotal])
    /\ ~IsDescending([i \in 1..Len(employees0) |-> employees0[i].commissionPct])
    /\ Len(result.value) >= 2
    /\ result.value[1].commissionPct > result.value[Len(result.value)].commissionPct
    /\ result.value[1].netTotal > result.value[Len(result.value)].netTotal

\* C6: with an empty pool assignJobLoads fails with a configuration error,
\* distinct from the unassigned-jobs error, and never returns a job list.
C6_EmptyPoolConfigError ==
    (AssignDone /\ Len(employees0) = 0) =>
        /\ result.status = "threw"
        /\ result.error # "UNASSIGNED JOBS STILL IN QUEUE!!!!"

\* C9: assignJobLoads leaves the caller's employee list and job queue as
\* they were: same elements, same order.
C9_InputsNotMutated ==
    AssignDone => (employees = employees0 /\ queue = queue0)

---------------------------------------------------------------------------
(* Specification of calculateServiceFees called on its own *)

\* "medium" has no parking rate
Sizes == {"small", "large", "medium"}

\* -1.1, 0, 0.099, 0.1, 0.101, 0.9
Levels == {-1100, 0, 99, 100, 101, 900}

Capacities == {10, 40}

Cars == [size : Sizes, fuel : [capacity : Capacities, level : Levels]]

VehicleQueues ==
    {[i \in 1..Len(c) |-> Spread(c[i], [licencePlate |-> Plates[i]])] :
        c \in SeqsUpTo(Cars, MaxVehicles)}

InitFees ==
    /\ queue \in VehicleQueues
    /\ queue0 = queue
    /\ employees = <<>>
    /\ employees0 = <<>>
    /\ jobLoads = <<>>
    /\ result = NoResult
    /\ runs = 0

CalculateServiceFees ==
    /\ runs = 0
    /\ result' = calculateServiceFees(queue)
    /\ runs' = 1
    /\ UNCHANGED <<employees, queue, employees0, queue0, jobLoads>>

NextFees == CalculateServiceFees

SpecFees == InitFees /\ [][NextFees]_vars

FeesDone == runs = 1

HasRate(car) == \E i \in 1..Len(parkingRates) : parkingRates[i].size = car.size

RateOf(car) == (CHOOSE r \in {parkingRates[i] : i \in 1..Len(parkingRates)} : r.size = car.size).rate

\* C7: calculateServiceFees returns one priced job per vehicle in input order;
\* a vehicle is refueled iff 0 <= level*100 <= 10, and then fuelAdded =
\* capacity - capacity*level and netTotal = parkingRate(size) + fuelAdded *
\* fuelPricePerUnit; otherwise fuelAdded = 0 and netTotal = parkingRate(size).
\* (Vehicles whose size has a parking rate.)
C7_ServiceFees ==
    (FeesDone /\ \A i \in 1..Len(queue0) : HasRate(queue0[i])) =>
        /\ result.status = "returned"
        /\ Len(result.value) = Len(queue0)
        /\ \A i \in 1..Len(queue0) :
              LET car == queue0[i]
                  job == result.value[i]
                  refuel == 0 <= car.fuel.level /\ car.fuel.level <= LevelScale \div 10
                  added == (LevelScale - car.fuel.level) * car.fuel.capacity
              IN  /\ job.licencePlate = car.licencePlate
                  /\ job.size = car.size
                  /\ job.fuel = car.fuel
                  /\ refuel => /\ job.fuelAdded = added
                               /\ job.netTotal =
                                     RateOf(car) * MoneyScale
                                       + added * fuelPricePerUnit
                                           * (MoneyScale \div (LevelScale * PriceScale))
                  /\ ~refuel => /\ job.fuelAdded = 0
                                /\ job.netTotal = MoneyScale * RateOf(car)

\* a priced queue with a car at exactly 10% next to one that is not refueled
C7_Witness ==
    /\ FeesDone
    /\ result.status = "returned"
    /\ \E i, j \in 1..Len(queue0) :
          /\ queue0[i].fuel.level = 100
          /\ result.value[i].fuelAdded > 0
          /\ queue0[j].fuel.level \in {-1100, 101}
          /\ result.value[j].fuelAdded = 0

---------------------------------------------------------------------------
(* Specification of addEmployeeCommission called on its own *)

\* 35, 50.75, 50.7675, 40.75875
PayNetTotals == {3500000, 5075000, 5076750, 4075875}

PayCommissionPcts == {-5, 0, 11, 15, 150}

AssignedJobs == [netTotal : PayNetTotals, commissionPct : PayCommissionPcts]

AssignedQueues ==
    {[i \in 1..Len(c) |->
        Spread(c[i], [licencePlate |-> Plates[i], name |-> Names[1], numJobs |-> Len(c),
                      fuelAdded |-> 0])] :
        c \in SeqsUpTo(AssignedJobs, MaxPayJobs)}

InitCommission ==
    /\ queue \in AssignedQueues
    /\ queue0 = queue
    /\ employees = <<>>
    /\ employees0 = <<>>
    /\ jobLoads = <<>>
    /\ result = NoResult
    /\ runs = 0

AddEmployeeCommission ==
    /\ runs = 0
    /\ result' = addEmployeeCommission(queue)
    /\ runs' = 1
    /\ UNCHANGED <<employees, queue, employees0, queue0, jobLoads>>

NextCommission == AddEmployeeCommission

SpecCommission == InitCommission /\ [][NextCommission]_vars

CommissionDone == runs = 1

\* the input fields of job i are carried over, in input order
KeepsJob(i) ==
    /\ result.value[i].licencePlate = queue0[i].licencePlate
    /\ result.value[i].name = queue0[i].name
    /\ result.value[i].netTotal = queue0[i].netTotal
    /\ result.value[i].commissionPct = queue0[i].commissionPct

---------------------------------------------------------------------------
(* Specification of successive jurassicParking runs on the module's pool *)

\* large cars at 10%, 9.9% and 90%, and a car of a size without a rate
BatchCars ==
    {[size |-> "large", fuel |-> [capacity |-> 10, level |-> 100]],
     [size |-> "large", fuel |-> [capacity |-> 10, level |-> 99]],
     [size |-> "large", fuel |-> [capacity |-> 10, level |-> 900]],
     [size |-> "medium", fuel |-> [capacity |-> 10, level |-> 900]]}

BatchQueues ==
    {[i \in 1..Len(c) |-> Spread(c[i], [licencePlate |-> Plates[i]])] :
        c \in SeqsUpTo(BatchCars, MaxBatchVehicles)}

InitBatch ==
    /\ employees \in EmployeePools
    /\ employees0 = employees
    /\ queue = <<>>
    /\ queue0 = <<>>
    /\ jobLoads = <<>>
    /\ result = NoResult
    /\ runs = 0

JurassicParking ==
    /\ runs < MaxRuns
    /\ \E q \in BatchQueues :
          LET r == jurassicParking(employees, q)
          IN  /\ queue' = q
              /\ queue0' = q
              /\ employees' = r.employees
              /\ jobLoads' = r.jobLoads
              /\ result' = r.result
    /\ runs' = runs + 1
    /\ UNCHANGED employees0

NextBatch == JurassicParking

SpecBatch == InitBatch /\ [][NextBatch]_vars

\* C10: batches are independent: every run, however many came before it and
\* although they sorted the shared pool in place, yields the receipts (or the
\* failure) that a first run on the pool as configured yields for the same
\* vehicle list; so two runs on equal lists yield equal results.
C10_BatchesIndependent ==
    runs >= 1 => result = jurassicParking(employees0, queue).result

\* a later run on a pool that an earlier run re-ordered, with receipts for
\* two employees
C10_Witness ==
    /\ runs >= 2
    /\ employees # employees0
    /\ result.status = "returned"
    /\ \E i, j \in 1..Len(result.value) : result.value[i].employee # result.value[j].employee

====
